---- MODULE Spec2Model ----
(***************************************************************************)
(* Builtin-function layer of the rune Lisp runtime: the hash table with    *)
(* its table-owned iteration cursor (fns.rs), sort (fns.rs), the search /  *)
(* match-data primitives and the regex syntax translator (search.rs), and  *)
(* the list builtins on cons cells: nconc, nreverse, delete, delq, mapcar, *)
(* mapc and assoc (fns.rs).                                                *)
(***************************************************************************)
EXTENDS Integers, Sequences, FiniteSets, TLC

(***************************************************************************)
(* Bounds of the model.                                                    *)
(***************************************************************************)
MaxKey == 3      \* hash-table keys are 1..MaxKey
MaxDepth == 2    \* nesting of maphash calls on the one table
MaxCalls == 4    \* function calls made by one maphash
MaxLen == 4      \* length of the list given to sort
MaxElem == 2     \* list elements are 0..MaxElem
MaxStr == 3      \* length of the subject text of string-match
MaxGroups == 2   \* capture groups of a pattern; subexpression indices
MaxData == 3     \* length of the list given to set-match-data
MaxOffset == 2   \* integers in the list given to set-match-data are 0..MaxOffset
MaxShift == 1    \* match-data--translate moves offsets by -MaxShift..MaxShift
MaxRegex == 3    \* length of the pattern given to the regex syntax translator
MaxCells == 4    \* cons cells allocated before a list builtin is called
MaxArgs == 3     \* lists given to nconc
MaxEntries == 2   \* entries of the table traversed by maphash inside maphash

Keys == 1..MaxKey
Vals == {"v", "w"}

VARIABLES
    table,      \* LispHashTable entries in insertion order: Seq([key, val])
    iter_idx,   \* LispHashTable iteration cursor (get_iter_index/set_iter_index)
    stack,      \* active maphash invocations, innermost last
    ret,        \* what the last builtin step did (operation, inputs, result)
    tracing,    \* whether the frames of stack record the traversal's history
    sort_pc,    \* "idle", "sorting" (inside vec.sort_by), "done" (sort returned)
    seq,        \* sort's argument list
    predicate,  \* sort's predicate
    vec,        \* sort's rooted working buffer
    ins,        \* position of the sort pass: the element being inserted
    err,        \* sort's captured error, 0 for None
    sort_hist,  \* history of the closure's invocations during one sort
    sort_res,   \* what sort returned
    match_data, \* env.match_data: the list of offsets of the last search
    search_ret, \* what the last search primitive was given and returned
    regex_arg,  \* lisp_regex_to_rust's argument regexp, a sequence of characters
    norm_regex, \* lisp_regex_to_rust's result
    regex_pc,   \* "idle", "call" (argument given), "done" (result returned)
    heap,       \* the cons cells allocated so far: Seq([car, cdr]), a cell
                \* being named by its index
    list_ret,   \* what the last list builtin was given and returned
    list_frame  \* the list builtin that is calling a function, if any

hashVars == <<table, iter_idx, stack, ret, tracing>>
sortVars == <<sort_pc, seq, predicate, vec, ins, err, sort_hist, sort_res>>
searchVars == <<match_data, search_ret>>
regexVars == <<regex_arg, norm_regex, regex_pc>>
listVars == <<heap, list_ret, list_frame>>
vars == <<hashVars, sortVars, searchVars, regexVars, listVars>>
nonHashVars == <<sortVars, searchVars, regexVars, listVars>>
nonSortVars == <<hashVars, searchVars, regexVars, listVars>>
nonSearchVars == <<hashVars, sortVars, regexVars, listVars>>
nonRegexVars == <<hashVars, sortVars, searchVars, listVars>>
nonListVars == <<hashVars, sortVars, searchVars, regexVars>>

(***************************************************************************)
(* Hash table: helpers for the IndexMap-backed LispHashTable.              *)
(***************************************************************************)

\* table.len()
len(t) == Len(t)

\* table.get_index_of(key): dense 0-based index, -1 for None
get_index_of(t, key) ==
    IF \E i \in 1..Len(t) : t[i].key = key
        THEN (CHOOSE i \in 1..Len(t) : t[i].key = key) - 1
        ELSE -1

\* table.get_index(idx): the entry at a dense 0-based index
get_index(t, idx) == t[idx + 1]

\* table.shift_remove(key): remove the entry, later entries move down by one
shift_remove(t, key) ==
    LET idx == get_index_of(t, key)
    IN  IF idx = -1 THEN t
        ELSE [i \in 1..(Len(t) - 1) |-> IF i <= idx THEN t[i] ELSE t[i + 1]]

\* table.insert(key, value): overwrite in place if present, else append
insert(t, key, value) ==
    LET idx == get_index_of(t, key)
    IN  IF idx = -1 THEN Append(t, [key |-> key, val |-> value])
        ELSE [t EXCEPT ![idx + 1] = [key |-> key, val |-> value]]

KeysOf(t) == {t[i].key : i \in 1..Len(t)}

\* A frame of stack is one maphash in progress. Its fields are history: the
\* keys present when it started, how often each key was passed to the function,
\* the keys removed since it started, and whether a maphash run by the function
\* has come back during the call now in progress. They are recorded only when
\* tracing.
NewFrame(t) ==
    [start |-> IF tracing THEN KeysOf(t) ELSE {},
     visits |-> [k \in Keys |-> 0],
     removed |-> {},
     nested |-> FALSE]

NoFrame == [start |-> {}, visits |-> [k \in Keys |-> 0], removed |-> {}, nested |-> FALSE]

\* the traversals left when the innermost one of frames returns: it has come
\* back into a call made by the one around it
returned_into(frames) ==
    [d \in 1..(Len(frames) - 1) |->
        IF d = Len(frames) - 1 THEN [frames[d] EXCEPT !.nested = tracing]
        ELSE frames[d]]

\* ret when nothing has been called yet; the steps below fill in what they did:
\* op the builtin, key/idx its entry, iter0/table0 the cursor and the entries
\* before it ran, res its outcome, frame the history of a maphash that returned,
\* nested whether the loop took this turn after a maphash run by the function
NoRet ==
    [op |-> "none", key |-> 0, idx |-> -1, iter0 |-> 0, table0 |-> <<>>,
     res |-> "ok", frame |-> NoFrame, nested |-> FALSE]

TotalVisits(f) ==
    LET RECURSIVE Sum(_)
        Sum(S) == IF S = {} THEN 0
                  ELSE LET k == CHOOSE x \in S : TRUE IN f.visits[k] + Sum(S \ {k})
    IN  Sum(Keys)

InCallback == stack # <<>>

(***************************************************************************)
(* remhash (fns.rs 886-899)                                                *)
(***************************************************************************)

\* mutant: the cursor also moves back for the entry at the cursor
remhash_iter_le(idx, iter) == IF idx <= iter THEN iter - 1 ELSE iter

\* mutant: the cursor never moves back
remhash_iter_keep(idx, iter) == iter

\* mutant: the cursor moves back whatever entry is removed
remhash_iter_always(idx, iter) == iter - 1

\* the cursor after removing the entry at dense index idx
remhash_iter(idx, iter) == IF idx < iter THEN iter - 1 ELSE iter

remhash(key) ==
    LET idx == get_index_of(table, key)
    IN  /\ ret' = [NoRet EXCEPT !.op = "remhash", !.key = key, !.idx = idx,
                                !.iter0 = iter_idx, !.table0 = table]
        /\ IF idx = -1
              THEN UNCHANGED <<table, iter_idx, stack>>
              ELSE /\ iter_idx' = remhash_iter(idx, iter_idx)
                   /\ table' = shift_remove(table, key)
                   /\ stack' = [d \in 1..Len(stack) |->
                                  [stack[d] EXCEPT !.removed =
                                      IF tracing THEN @ \cup {key} ELSE @]]
        /\ UNCHANGED tracing

\* remhash called by the evaluator outside any maphash
TopRemhash == \E key \in Keys : ~InCallback /\ remhash(key) /\ UNCHANGED nonHashVars

\* remhash called by the function maphash is running
CbRemhash == \E key \in Keys : InCallback /\ remhash(key) /\ UNCHANGED nonHashVars

(***************************************************************************)
(* puthash (fns.rs 876-884)                                                *)
(***************************************************************************)
puthash(key, value) ==
    /\ table' = insert(table, key, value)
    /\ ret' = [NoRet EXCEPT !.op = "puthash", !.key = key]
    /\ UNCHANGED <<iter_idx, stack, tracing>>

TopPuthash == \E key \in Keys, value \in Vals : ~InCallback /\ puthash(key, value) /\ UNCHANGED nonHashVars

CbPuthash == \E key \in Keys, value \in Vals : InCallback /\ puthash(key, value) /\ UNCHANGED nonHashVars

(***************************************************************************)
(* maphash (fns.rs 901-929)                                                *)
(***************************************************************************)

\* mutant: the closure leaves the cursor where it is
loop_idx_stay(t, iter) ==
    [iter |-> iter, idx |-> IF iter >= len(t) THEN -1 ELSE iter]

\* loop_idx closure: advances the cursor, yields the index to visit or -1
loop_idx(t, iter) ==
    LET end == len(t)
        idx == iter
    IN  [iter |-> idx + 1, idx |-> IF idx >= end THEN -1 ELSE idx]

\* mutant: the error branch leaves the cursor where it is
maphash_err_iter_keep(iter) == iter

\* the cursor when maphash returns because the function raised
maphash_err_iter(iter) == 0

\* mutant: the cursor stays past the end when the loop is left
maphash_end_iter_keep(iter) == iter

\* the cursor when maphash returns after the last entry
maphash_end_iter(iter) == 0

\* One turn of maphash's loop with `frames` active: either calls the function
\* on the next entry or leaves the loop, resets the cursor and returns.
maphash_loop(frames) ==
    LET step == loop_idx(table, iter_idx)
        top == frames[Len(frames)]
    IN  IF step.idx = -1
           THEN /\ iter_idx' = maphash_end_iter(step.iter)
                /\ stack' = returned_into(frames)
                /\ ret' = [NoRet EXCEPT !.op = "maphash", !.iter0 = iter_idx,
                                        !.frame = top, !.nested = top.nested]
                /\ UNCHANGED <<table, tracing>>
           ELSE LET entry == get_index(table, step.idx)
                IN  /\ TotalVisits(top) < MaxCalls
                    /\ iter_idx' = step.iter
                    /\ stack' = [frames EXCEPT ![Len(frames)].visits[entry.key] =
                                     IF tracing THEN @ + 1 ELSE @,
                                 ![Len(frames)].nested = FALSE]
                    /\ ret' = [NoRet EXCEPT !.op = "call", !.key = entry.key,
                                            !.idx = step.idx, !.nested = top.nested]
                    /\ UNCHANGED <<table, tracing>>

\* maphash called by the evaluator
TopMaphash ==
    /\ ~InCallback
    /\ maphash_loop(<<NewFrame(table)>>)
    /\ UNCHANGED nonHashVars

\* maphash called on the same table by the function an outer maphash is running
CbMaphash ==
    /\ InCallback
    /\ Len(stack) < MaxDepth
    /\ maphash_loop(Append(stack, NewFrame(table)))
    /\ UNCHANGED nonHashVars

\* the function returns normally: the loop takes its next turn
CbReturn == InCallback /\ maphash_loop(stack) /\ UNCHANGED nonHashVars

\* the function raises: the cursor is reset and the error propagates
CbError ==
    /\ InCallback
    /\ iter_idx' = maphash_err_iter(iter_idx)
    /\ stack' = returned_into(stack)
    /\ ret' = [NoRet EXCEPT !.op = "maphash", !.res = "err", !.iter0 = iter_idx,
                            !.frame = stack[Len(stack)]]
    /\ UNCHANGED <<table, tracing>>
    /\ UNCHANGED nonHashVars

HashInit ==
    /\ table = <<>>
    /\ iter_idx = 0
    /\ stack = <<>>
    /\ ret = NoRet

\* the tables puthash can build: entries in insertion order, no key twice
Tables ==
    {t \in UNION {[1..n -> [key : Keys, val : Vals]] : n \in 0..MaxKey} :
        \A i, j \in 1..Len(t) : t[i].key = t[j].key => i = j}

\* a table built by the program, no maphash running
TableGiven ==
    /\ table \in Tables
    /\ iter_idx = 0
    /\ stack = <<>>
    /\ ret = NoRet

\* gethash (fns.rs 864-874) called by the function maphash is running: a
\* lookup, which leaves the entries and the cursor alone
CbGethash ==
    \E key \in Keys :
        /\ InCallback
        /\ ret' = [NoRet EXCEPT !.op = "gethash", !.key = key,
                                !.idx = get_index_of(table, key),
                                !.iter0 = iter_idx, !.table0 = table]
        /\ UNCHANGED <<table, iter_idx, stack, tracing>>
        /\ UNCHANGED nonHashVars

\* maphash over a table whose function only calls gethash and remhash
LookupRemNext ==
    \/ TopMaphash
    \/ CbGethash
    \/ CbRemhash
    \/ CbReturn

\* maphash whose function runs maphash over the same table, removes entries,
\* returns or raises
NestedNext ==
    \/ TopMaphash
    \/ CbMaphash
    \/ CbRemhash
    \/ CbReturn
    \/ CbError

\* every use of the table the builtins allow
HashNext ==
    \/ TopPuthash
    \/ TopRemhash
    \/ TopMaphash
    \/ CbPuthash
    \/ CbRemhash
    \/ CbMaphash
    \/ CbReturn
    \/ CbError

\* maphash whose function only calls remhash on the table and returns
MapRemNext ==
    \/ TopPuthash
    \/ TopRemhash
    \/ TopMaphash
    \/ CbRemhash
    \/ CbReturn

(***************************************************************************)
(* sort (fns.rs 449-484)                                                   *)
(***************************************************************************)
Elems == 0..MaxElem
Lists == UNION {[1..n -> Elems] : n \in 0..MaxLen}

\* The predicates handed to sort: <, > and car-less-than-car, for which the
\* integer x stands for the pair (x \div 2 . x % 2).
Preds == {"lt", "gt", "car_lt"}

\* whether predicate p answers non-nil on (a, b)
pred_holds(p, a, b) ==
    CASE p = "lt" -> a < b
      [] p = "gt" -> a > b
      [] p = "car_lt" -> (a \div 2) < (b \div 2)

NoIns == [i |-> 0, sift |-> 0, tmp |-> 0]
NoHist == [pred_calls |-> 0, closure_calls |-> 0, first_err |-> 0, late |-> {}]
NoRes == [kind |-> "none", list |-> <<>>, err |-> 0]

\* slice_into_list (fns.rs 29-36): conses the slice's elements, last first,
\* onto tail
slice_into_list(slice, tail) ==
    LET RECURSIVE fold(_, _)
        fold(n, acc) == IF n = 0 THEN acc ELSE fold(n - 1, <<slice[n]>> \o acc)
    IN  fold(Len(slice), tail)

\* mutant: the closure does not look at err
closure_calls_always(e) == TRUE

\* the closure calls the predicate only while no error has been captured
closure_calls_predicate(e) == e = 0

\* mutant: the predicate is called on (b, a)
pred_args_swapped(a, b) == <<b, a>>

\* call!(predicate, a, b)
pred_args(a, b) == <<a, b>>

\* what the call of the predicate can produce: its answer, or an error
predicate_outcomes(p, a, b) ==
    LET args == pred_args(a, b)
    IN  {IF pred_holds(p, args[1], args[2]) THEN "t" ELSE "nil", "raise"}

\* mutant: nil sorts first
ordering_swapped(outcome) ==
    CASE outcome = "nil" -> "Less"
      [] outcome = "t" -> "Greater"
      [] OTHER -> "Equal"

\* the closure's answer: nil is Greater, non-nil is Less, an error (and every
\* comparison after an error) is Equal
ordering(outcome) ==
    CASE outcome = "nil" -> "Greater"
      [] outcome = "t" -> "Less"
      [] OTHER -> "Equal"

\* sort's return value once vec.sort_by is over
sort_result(e, v) ==
    IF e # 0 THEN [kind |-> "err", list |-> <<>>, err |-> e]
    ELSE [kind |-> "ok", list |-> slice_into_list(v, <<>>), err |-> 0]

\* sort is called: the elements are collected; a list of at most one element
\* is returned as it is, otherwise vec.sort_by starts inserting the second
\* element (the stable sort of a slice of at most 20 elements is an insertion
\* sort from the left)
SortCall ==
    /\ sort_pc = "idle"
    /\ \E s \in Lists, p \in Preds :
          /\ seq' = s
          /\ predicate' = p
          /\ vec' = s
          /\ IF Len(s) <= 1
                THEN /\ sort_pc' = "done"
                     /\ ins' = NoIns
                     /\ sort_res' = [kind |-> "ok", list |-> s, err |-> 0]
                ELSE /\ sort_pc' = "sorting"
                     /\ ins' = [i |-> 2, sift |-> 1, tmp |-> s[2]]
                     /\ sort_res' = NoRes
    /\ err' = 0
    /\ sort_hist' = NoHist
    /\ UNCHANGED nonSortVars

\* One invocation of the closure given to vec.sort_by, on the element being
\* inserted and the element left of the gap, and what the sort pass does with
\* the answer up to the next invocation; after the last one sort returns.
SortCompare ==
    /\ sort_pc = "sorting"
    /\ LET a == ins.tmp
           b == vec[ins.sift]
           calls == closure_calls_predicate(err)
       IN  \E outcome \in (IF calls THEN predicate_outcomes(predicate, a, b)
                                    ELSE {"skipped"}) :
             LET ord == ordering(outcome)
                 is_less == ord = "Less"
                 n == sort_hist.pred_calls + (IF calls THEN 1 ELSE 0)
                 e == IF outcome = "raise" THEN n ELSE err
                 shifted == [vec EXCEPT ![ins.sift + 1] = vec[ins.sift]]
                 \* the buffer once this insertion is over, if it is
                 placed == IF is_less THEN [shifted EXCEPT ![ins.sift] = ins.tmp]
                                      ELSE [vec EXCEPT ![ins.sift + 1] = ins.tmp]
                 inserted == ~is_less \/ ins.sift = 1
             IN  /\ err' = e
                 /\ sort_hist' =
                      [pred_calls |-> n,
                       closure_calls |-> sort_hist.closure_calls + 1,
                       first_err |-> IF sort_hist.first_err = 0 /\ outcome = "raise"
                                        THEN n ELSE sort_hist.first_err,
                       late |-> IF err # 0 THEN sort_hist.late \cup {ord}
                                           ELSE sort_hist.late]
                 /\ IF ~inserted
                       THEN /\ vec' = shifted
                            /\ ins' = [ins EXCEPT !.sift = @ - 1]
                            /\ sort_pc' = "sorting"
                            /\ sort_res' = NoRes
                       ELSE /\ vec' = placed
                            /\ IF ins.i = Len(vec)
                                  THEN /\ ins' = ins
                                       /\ sort_pc' = "done"
                                       /\ sort_res' = sort_result(e, placed)
                                  ELSE /\ ins' = [i |-> ins.i + 1, sift |-> ins.i,
                                                  tmp |-> placed[ins.i + 1]]
                                       /\ sort_pc' = "sorting"
                                       /\ sort_res' = NoRes
    /\ UNCHANGED <<seq, predicate>>
    /\ UNCHANGED nonSortVars

SortInit ==
    /\ sort_pc = "idle"
    /\ seq = <<>>
    /\ predicate = "lt"
    /\ vec = <<>>
    /\ ins = NoIns
    /\ err = 0
    /\ sort_hist = NoHist
    /\ sort_res = NoRes

SortNext ==
    \/ SortCall
    \/ SortCompare

(***************************************************************************)
(* Search (search.rs)                                                      *)
(***************************************************************************)

\* Lisp objects held in Match Data: integers and nil
IntObj(n) == [tag |-> "int", n |-> n]
NIL == [tag |-> "nil", n |-> 0]

Chars == {"a", "b"}
Strings == UNION {[1..n -> Chars] : n \in 0..MaxStr}

\* A pattern is a sequence of capture groups of one character each, the odd
\* groups holding a and the even groups b, each group optional or not:
\* <<[ch |-> "a", opt |-> TRUE], [ch |-> "b", opt |-> FALSE]>> is the Emacs
\* regexp \(a\)?\(b\). BadPattern does not compile.
group_char(i) == IF i % 2 = 1 THEN "a" ELSE "b"
Patterns ==
    UNION {{[i \in 1..n |-> [ch |-> group_char(i), opt |-> o[i]]] : o \in [1..n -> BOOLEAN]}
           : n \in 0..MaxGroups}
BadPattern == <<[ch |-> "(", opt |-> FALSE]>>

\* Regex::new(..) succeeds
compiles(regexp) == \A i \in 1..Len(regexp) : regexp[i].ch \in Chars

NoGroup == [on |-> FALSE, s |-> 0, e |-> 0]

\* The regex engine on one haystack: the groups of the leftmost match, with
\* offsets counted from the start of the haystack, group 0 first; a group
\* that took no part in the match is NoGroup. An optional group is tried
\* present first.
RECURSIVE match_at(_, _, _, _)
match_at(regexp, text, i, pos) ==
    IF i > Len(regexp) THEN [ok |-> TRUE, groups |-> <<>>, end |-> pos]
    ELSE LET atom == regexp[i]
             here == pos < Len(text) /\ text[pos + 1] = atom.ch
             took == match_at(regexp, text, i + 1, pos + 1)
             skipped == match_at(regexp, text, i + 1, pos)
         IN  IF here /\ took.ok
                THEN [took EXCEPT !.groups =
                         <<[on |-> TRUE, s |-> pos, e |-> pos + 1]>> \o @]
             ELSE IF atom.opt /\ skipped.ok
                THEN [skipped EXCEPT !.groups = <<NoGroup>> \o @]
             ELSE [ok |-> FALSE, groups |-> <<>>, end |-> pos]

\* re.captures_iter(haystack).next(): <<>> when there is no match
captures(regexp, text) ==
    LET starts == {p \in 0..Len(text) : match_at(regexp, text, 1, p).ok}
    IN  IF starts = {} THEN <<>>
        ELSE LET p == CHOOSE q \in starts : \A r \in starts : q <= r
                 m == match_at(regexp, text, 1, p)
             IN  <<[on |-> TRUE, s |-> p, e |-> m.end]>> \o m.groups

\* the loop `while let Some(Some(group)) = groups.next()`: the offsets of the
\* groups up to, not including, the first group that took no part
RECURSIVE all_offsets(_)
all_offsets(groups) ==
    IF groups = <<>> \/ ~groups[1].on THEN <<>>
    ELSE <<IntObj(groups[1].s), IntObj(groups[1].e)>> \o all_offsets(Tail(groups))

\* mutant: a failed search clears Match Data
no_match_data_cleared(md) == <<>>

\* Match Data after a search that found nothing
no_match_data(md) == md

NoSearch ==
    [op |-> "none", kind |-> "ok", subexp |-> 0, start |-> 0, found |-> FALSE,
     caps |-> <<>>, md0 |-> <<>>, value |-> NIL,
     string |-> <<>>, newtext |-> <<>>, subexp_arg |-> <<>>, text |-> <<>>,
     shift |-> 0]

\* string_match (search.rs 13-42) on Match Data md: the Match Data it leaves
\* and what it returned
string_match(regexp, string, start, md) ==
    IF ~compiles(regexp)
       THEN [md |-> md,
             ret |-> [NoSearch EXCEPT !.op = "string_match", !.kind = "err",
                                      !.start = start]]
    ELSE IF start > Len(string)
       THEN \* &string[start..] is out of range: the call panics
            [md |-> md,
             ret |-> [NoSearch EXCEPT !.op = "string_match", !.kind = "panic",
                                      !.start = start]]
    ELSE LET matches == captures(regexp, SubSeq(string, start + 1, Len(string)))
         IN  IF matches # <<>>
                THEN LET all == all_offsets(matches)
                         list == slice_into_list(all, <<>>)
                     IN  [md |-> list,
                          ret |-> [NoSearch EXCEPT !.op = "string_match",
                                     !.start = start, !.found = TRUE,
                                     !.caps = matches, !.value = Head(list)]]
                ELSE [md |-> no_match_data(md),
                      ret |-> [NoSearch EXCEPT !.op = "string_match",
                                 !.start = start, !.md0 = md]]

StringMatch ==
    \E regexp \in Patterns \cup {BadPattern}, string \in Strings, start \in 0..(MaxStr + 1) :
        /\ match_data' = string_match(regexp, string, start, match_data).md
        /\ search_ret' = string_match(regexp, string, start, match_data).ret
        /\ UNCHANGED nonSearchVars

Objects == {NIL} \cup {IntObj(n) : n \in 0..MaxOffset}

\* set_match_data (search.rs 140-146)
SetMatchData ==
    \E n \in 0..MaxData : \E list \in [1..n -> Objects] :
        /\ match_data' = list
        /\ search_ret' = [NoSearch EXCEPT !.op = "set_match_data"]
        /\ UNCHANGED nonSearchVars

\* list.fallible().nth(n)?.unwrap_or_default()
nth_or_default(list, n) == IF n < Len(list) THEN list[n + 1] ELSE NIL

\* match_beginning (search.rs 148-152)
MatchBeginning ==
    \E subexp \in 0..MaxGroups :
        /\ search_ret' = [NoSearch EXCEPT !.op = "match_beginning", !.subexp = subexp,
                                          !.value = nth_or_default(match_data, subexp)]
        /\ UNCHANGED match_data
        /\ UNCHANGED nonSearchVars

\* match_end (search.rs 154-158)
MatchEnd ==
    \E subexp \in 0..MaxGroups :
        /\ search_ret' = [NoSearch EXCEPT !.op = "match_end", !.subexp = subexp,
                                          !.value = nth_or_default(match_data, subexp + 1)]
        /\ UNCHANGED match_data
        /\ UNCHANGED nonSearchVars

\* An Option argument: <<>> is None and <<x>> is Some(x)
Some(x) == <<x>>
None == <<>>
unwrap_or(opt, default) == IF opt = None THEN default ELSE opt[1]

Newtexts == {<<>>, <<"x">>}
SubexpArgs == {None} \cup {Some(n) : n \in 0..MaxGroups}

\* beg.try_into()?, end.try_into()? for usize succeeds
is_usize(obj) == obj.tag = "int" /\ obj.n >= 0

\* mutant: the entries of subexpression n are looked up at n and n+1
replace_skip_single(subexp) == subexp

\* the number of Match Data entries passed over before beg is read
replace_skip(subexp) == subexp * 2

\* replace_match (search.rs 44-77): what it returns on Match Data md
replace_match(newtext, string, subexp_arg, md) ==
    LET subexp == unwrap_or(subexp_arg, 0)
        skip == replace_skip(subexp)
    IN  IF string = None THEN [kind |-> "err", text |-> <<>>]
        ELSE IF Len(md) < skip + 2 THEN [kind |-> "err", text |-> <<>>]
        ELSE LET beg == md[skip + 1]
                 end == md[skip + 2]
                 str == string[1]
             IN  IF ~is_usize(beg) \/ ~is_usize(end)
                    THEN [kind |-> "err", text |-> <<>>]
                 ELSE IF beg.n > Len(str) \/ end.n > Len(str)
                    THEN \* &string[..beg] or &string[end..] is out of range
                         [kind |-> "panic", text |-> <<>>]
                 ELSE [kind |-> "ok",
                       text |-> SubSeq(str, 1, beg.n) \o newtext
                                  \o SubSeq(str, end.n + 1, Len(str))]

\* replace_match called with one of the given subjects; what the call before
\* found is kept beside the result
ReplaceMatch(subjects) ==
    \E newtext \in Newtexts, string \in subjects, subexp_arg \in SubexpArgs :
        LET r == replace_match(newtext, string, subexp_arg, match_data)
        IN  /\ search_ret' = [search_ret EXCEPT !.op = "replace_match", !.kind = r.kind,
                                 !.string = string, !.newtext = newtext,
                                 !.subexp_arg = subexp_arg, !.md0 = match_data,
                                 !.text = r.text]
            /\ UNCHANGED match_data
            /\ UNCHANGED nonSearchVars

\* replace-match on the subject of the search before it
ReplaceInSubject == ReplaceMatch({search_ret.string})

\* the state a first string-match on a subject leaves, the subject noted
AfterStringMatch ==
    \E regexp \in Patterns, string \in Strings, start \in 0..MaxStr :
        /\ match_data = string_match(regexp, string, start, <<>>).md
        /\ search_ret = [string_match(regexp, string, start, <<>>).ret
                            EXCEPT !.string = Some(string)]

\* subjects of every length, and the call without a subject
ReplaceSubjects == {None} \cup {Some([i \in 1..n |-> "a"]) : n \in 0..MaxStr}

\* replace-match on any subject
ReplaceInAny == ReplaceMatch(ReplaceSubjects)

\* the state a first set-match-data leaves
AfterSetMatchData ==
    \E n \in 0..MaxData : \E list \in [1..n -> Objects] :
        /\ match_data = list
        /\ search_ret = [NoSearch EXCEPT !.op = "set_match_data"]

\* mutant: the entries are moved the other way
translated_back(old, n) == old - n

\* reg.set_car((old + n).into())
translated(old, n) == old + n

\* mutant: the entries rewritten before entry i are put back
left_at_bail_restored(md, i, n) ==
    [j \in 1..Len(md) |-> IF j < i THEN IntObj(md[j].n - n) ELSE md[j]]

\* bail!("match data was not int") at entry i: the call returns with the list
\* as the loop has rewritten it so far
left_at_bail(md, i, n) == md

\* the loop of match_data__translate from entry i on: entries are rewritten in
\* place one by one, and the first entry that is no integer ends the call
RECURSIVE translate_from(_, _, _)
translate_from(md, i, n) ==
    IF i > Len(md) THEN [md |-> md, kind |-> "ok"]
    ELSE IF md[i].tag = "int"
       THEN translate_from([md EXCEPT ![i] = IntObj(translated(@.n, n))], i + 1, n)
    ELSE [md |-> left_at_bail(md, i, n), kind |-> "err"]

Shifts == (0 - MaxShift)..MaxShift

\* match_data__translate (search.rs 160-173); the offsets are kept within
\* MaxShift of the ones set-match-data can give
MatchDataTranslate ==
    \E n \in Shifts :
        /\ \A i \in 1..Len(match_data) :
              match_data[i].tag = "int"
                 => match_data[i].n + n \in (0 - MaxShift)..(MaxOffset + MaxShift)
        /\ match_data' = translate_from(match_data, 1, n).md
        /\ search_ret' = [NoSearch EXCEPT !.op = "match_data__translate",
                             !.kind = translate_from(match_data, 1, n).kind,
                             !.md0 = match_data, !.shift = n]
        /\ UNCHANGED nonSearchVars

SearchInit ==
    /\ match_data = <<>>
    /\ search_ret = NoSearch

\* searches, each starting from the Match Data the one before left
SearchNext == StringMatch

\* Match Data set by the program and read back
MatchDataNext ==
    \/ SetMatchData
    \/ MatchBeginning
    \/ MatchEnd

(***************************************************************************)
(* Regex syntax translator (search.rs)                                     *)
(***************************************************************************)
Parens == {"(", ")", "{", "}"}

\* the grave accent (backquote) character, which a string of this module
\* cannot hold
Grave == "grave"

RegexChars == Parens \cup {"\\", Grave, "'", "[", "a"}

\* the patterns of the unit test that hold a character class (search.rs 190-191)
WordClass == <<"[", ":", "w", "o", "r", "d", ":", "]">>
ClassPatterns == {<<"[">> \o WordClass \o <<"]">>, <<"[">> \o WordClass \o <<"_", "]">>}

RegexInputs == UNION {[1..n -> RegexChars] : n \in 0..MaxRegex} \cup ClassPatterns

\* regexp[idx..].starts_with(word), idx counted from 1
starts_with(s, idx, word) ==
    /\ idx + Len(word) - 1 <= Len(s)
    /\ \A k \in 1..Len(word) : s[idx + k - 1] = word[k]

\* mutant: a parenthesis after a backslash keeps its backslash
escaped_paren_kept(c) == <<"\\", c>>

\* Some((_, c @ '('..=')' | c @ '{' | c @ '}')) => norm_regex.push(c)
escaped_paren(c) == <<c>>

\* mutant: the character after a backslash is read again as a character of
\* its own
after_escape_reread(i) == i + 1

\* the position the loop resumes at after the backslash at i and the
\* character chars.next() took
after_escape(i) == i + 2

\* the arm '\\' => match chars.next() { .. }: what is pushed for the backslash
\* at i
escape_output(s, i) ==
    IF i + 1 > Len(s) THEN <<"\\">>
    ELSE LET c == s[i + 1]
         IN  IF c \in Parens THEN escaped_paren(c)
             ELSE IF c = Grave THEN <<"\\", "A">>
             ELSE IF c = "'" THEN <<"\\", "z">>
             ELSE <<"\\", c>>

\* the loop while let Some((idx, ch)) = chars.next() from position i on
RECURSIVE translate_chars(_, _)
translate_chars(s, i) ==
    IF i > Len(s) THEN <<>>
    ELSE LET ch == s[i]
         IN  IF ch \in Parens THEN <<"\\", ch>> \o translate_chars(s, i + 1)
             ELSE IF ch = "\\" THEN escape_output(s, i) \o translate_chars(s, after_escape(i))
             ELSE IF ch = "["
                THEN IF starts_with(s, i, WordClass)
                        THEN <<"a", "-", "z", "A", "-", "Z">>
                                \o translate_chars(s, i + Len(WordClass))
                     ELSE <<"[">> \o translate_chars(s, i + 1)
             ELSE <<ch>> \o translate_chars(s, i + 1)

\* lisp_regex_to_rust (search.rs 91-124)
lisp_regex_to_rust(s) == translate_chars(s, 1)

\* the call of lisp_regex_to_rust on the pattern given
LispRegexToRust ==
    /\ regex_pc = "call"
    /\ norm_regex' = lisp_regex_to_rust(regex_arg)
    /\ regex_pc' = "done"
    /\ UNCHANGED regex_arg
    /\ UNCHANGED nonRegexVars

\* no pattern given
RegexIdle ==
    /\ regex_arg = <<>>
    /\ norm_regex = <<>>
    /\ regex_pc = "idle"

\* a pattern given to the translator
RegexGiven ==
    /\ regex_arg \in RegexInputs
    /\ norm_regex = <<>>
    /\ regex_pc = "call"

RegexNext == LispRegexToRust

(***************************************************************************)
(* Cons cells and the destructive list builtins (fns.rs)                   *)
(***************************************************************************)
\* a reference to the cons cell c, and a string object: two string objects
\* are distinct objects with the same contents
ConsObj(c) == [tag |-> "cons", n |-> c]
StrObj(id) == [tag |-> "str", n |-> id]

\* eq: the same object; equal: the same structure (the elements compared
\* are integers and strings)
eq(a, b) == a = b
equal(a, b) == a = b \/ (a.tag = "str" /\ b.tag = "str")

\* The heaps in which the cells 1..n form proper lists: cell c is followed by
\* cell c + 1 unless c ends its list, cars(c) being the element it holds.
chain_heap(n, ends, cars) ==
    [c \in 1..n |-> [car |-> cars[c],
                     cdr |-> IF c \in ends THEN NIL ELSE ConsObj(c + 1)]]

\* the lists of a heap: nil and every cell, which heads the list from it on
ListRefs(h) == {NIL} \cup {ConsObj(c) : c \in 1..Len(h)}

\* list.conses(): the cells from obj on, following cdr to the first object
\* that is no cons, at most fuel of them
RECURSIVE conses_upto(_, _, _)
conses_upto(h, obj, fuel) ==
    IF obj.tag # "cons" \/ fuel = 0 THEN <<>>
    ELSE <<obj.n>> \o conses_upto(h, h[obj.n].cdr, fuel - 1)

\* the chain from obj on comes back to a cell of its own
circular(h, obj) == Len(conses_upto(h, obj, Len(h) + 1)) > Len(h)

conses(h, obj) == conses_upto(h, obj, Len(h))

\* the elements of the list obj
elements(h, obj) == [i \in 1..Len(conses(h, obj)) |-> h[conses(h, obj)[i]].car]

\* cons.set_cdr(obj)
set_cdr(h, c, obj) == [h EXCEPT ![c].cdr = obj]

NoListRet ==
    [op |-> "none", kind |-> "ok", args |-> <<>>, elt |-> NIL, value |-> NIL,
     heap0 |-> <<>>, calls |-> <<>>, answers |-> <<>>, testfn |-> FALSE]

NoListFrame == [fn |-> "none"]

\* mutant: the running tail is the head cell of the list just passed
nconc_tail_first(cs) == cs[1]

\* list.conses().last(): the cell the running tail moves to
nconc_tail(cs) == cs[Len(cs)]

\* the loop of nconc from the i-th list on; tail is the running tail, 0 for
\* None. Walking a list that has become circular never yields a last cell:
\* the call then returns no value.
RECURSIVE nconc_loop(_, _, _, _)
nconc_loop(h, lists, i, tail) ==
    IF i > Len(lists) THEN [heap |-> h, kind |-> "ok"]
    ELSE LET h1 == IF tail # 0 THEN set_cdr(h, tail, lists[i]) ELSE h
         IN  IF circular(h1, lists[i]) THEN [heap |-> h1, kind |-> "circular"]
             ELSE nconc_loop(h1, lists, i + 1,
                             IF conses(h1, lists[i]) = <<>> THEN tail
                             ELSE nconc_tail(conses(h1, lists[i])))

\* lists.iter().find(|x| x != empty): the first list that is not nil, or nil
RECURSIVE first_non_empty(_)
first_non_empty(lists) ==
    IF lists = <<>> THEN NIL
    ELSE IF lists[1] # NIL THEN lists[1]
    ELSE first_non_empty(Tail(lists))

\* nconc (fns.rs 245-261)
Nconc ==
    \E n \in 0..MaxArgs : \E lists \in [1..n -> ListRefs(heap)] :
        LET r == nconc_loop(heap, lists, 1, 0)
        IN  /\ list_ret.op = "none"
            /\ heap' = r.heap
            /\ list_ret' = [NoListRet EXCEPT !.op = "nconc", !.kind = r.kind,
                               !.args = lists, !.heap0 = heap,
                               !.value = IF r.kind = "ok" THEN first_non_empty(lists)
                                         ELSE NIL]
            /\ UNCHANGED list_frame
            /\ UNCHANGED nonListVars

\* mutant: the walk reads the rest of a cell after the loop body has run
iter_next_late(before, after, c) == after[c].cdr

\* the cons iterator takes the rest of cell c when it yields c, before the
\* loop body runs on it: before is the heap then, after the heap the body left
iter_next(before, after, c) == before[c].cdr

\* the loop of nreverse: cur is the object the walk has come to, prev the
\* cell relinked last
RECURSIVE nreverse_loop(_, _, _)
nreverse_loop(h, cur, prev) ==
    IF cur.tag # "cons" THEN [heap |-> h, value |-> prev]
    ELSE LET h1 == set_cdr(h, cur.n, prev)
         IN  nreverse_loop(h1, iter_next(h, h1, cur.n), cur)

\* nreverse (fns.rs 226-234)
Nreverse ==
    \E sequence \in ListRefs(heap) :
        LET r == nreverse_loop(heap, sequence, NIL)
        IN  /\ list_ret.op = "none"
            /\ heap' = r.heap
            /\ list_ret' = [NoListRet EXCEPT !.op = "nreverse", !.args = <<sequence>>,
                               !.heap0 = heap, !.value = r.value]
            /\ UNCHANGED list_frame
            /\ UNCHANGED nonListVars

\* eq_fn(a, b) for the comparison a builtin passes on
eq_fn(fn, a, b) == IF fn = "eq" THEN eq(a, b) ELSE equal(a, b)

\* mutant: a matching first cell stays the head
unlinked_head_kept(h, c) == ConsObj(c)

\* head = tail.cdr(): the head once the matching cell c has no survivor
\* before it
unlinked_head(h, c) == h[c].cdr

\* the loop of delete_from_list: prev is the last cell kept, 0 for None
RECURSIVE delete_loop(_, _, _, _, _, _)
delete_loop(h, elt, fn, cur, prev, head) ==
    IF cur.tag # "cons" THEN [heap |-> h, value |-> head]
    ELSE LET c == cur.n
         IN  IF eq_fn(fn, h[c].car, elt)
                THEN IF prev # 0
                        THEN LET h1 == set_cdr(h, prev, h[c].cdr)
                             IN  delete_loop(h1, elt, fn, iter_next(h, h1, c), prev, head)
                     ELSE delete_loop(h, elt, fn, iter_next(h, h, c), prev,
                                      unlinked_head(h, c))
             ELSE delete_loop(h, elt, fn, iter_next(h, h, c), c, head)

\* delete_from_list (fns.rs 397-413)
delete_from_list(h, elt, list, fn) == delete_loop(h, elt, fn, list, 0, list)

\* the elements the lists hold: two integers and two strings alike
ListElems == {IntObj(0), IntObj(1), StrObj(1), StrObj(2)}

\* delete (fns.rs 416-418) and delq (fns.rs 421-423)
DeleteFrom(op, fn) ==
    \E elt \in ListElems, list \in ListRefs(heap) :
        LET r == delete_from_list(heap, elt, list, fn)
        IN  /\ list_ret.op = "none"
            /\ heap' = r.heap
            /\ list_ret' = [NoListRet EXCEPT !.op = op, !.args = <<list>>, !.elt = elt,
                               !.heap0 = heap, !.value = r.value]
            /\ UNCHANGED list_frame
            /\ UNCHANGED nonListVars

Delete == DeleteFrom("delete", "equal")

Delq == DeleteFrom("delq", "eq")

\* one proper list of up to MaxCells cells holding any elements
ElementList ==
    /\ \E n \in 0..MaxCells : \E cars \in [1..n -> ListElems] :
          heap = chain_heap(n, {n}, cars)
    /\ list_ret = NoListRet
    /\ list_frame = NoListFrame

ListOpsNext ==
    \/ Nreverse
    \/ Delete
    \/ Delq

\* Cons::new(car, cdr, cx): the heap with one cell more
cons_new(h, car, cdr) == Append(h, [car |-> car, cdr |-> cdr])

\* mutant: each new cell ends the chain
reverse_push_alone(h, elem, tail) == cons_new(h, elem, NIL)

\* tail = Cons::new(elem?, tail, cx): a new cell holding elem before tail
reverse_push(h, elem, tail) == cons_new(h, elem, tail)

\* the loop of reverse: cur is the object the walk has come to, tail the
\* chain built so far; a rest that is neither a cons nor nil is an error
RECURSIVE reverse_loop(_, _, _)
reverse_loop(h, cur, tail) ==
    IF cur.tag # "cons"
       THEN IF cur = NIL THEN [heap |-> h, kind |-> "ok", value |-> tail]
            ELSE [heap |-> h, kind |-> "err", value |-> NIL]
    ELSE LET h1 == reverse_push(h, h[cur.n].car, tail)
         IN  reverse_loop(h1, h[cur.n].cdr, ConsObj(Len(h1)))

\* reverse (fns.rs 237-243)
Reverse ==
    \E seq_arg \in ListRefs(heap) :
        LET r == reverse_loop(heap, seq_arg, NIL)
        IN  /\ list_ret.op = "none"
            /\ heap' = r.heap
            /\ list_ret' = [NoListRet EXCEPT !.op = "reverse", !.kind = r.kind,
                               !.args = <<seq_arg>>, !.heap0 = heap,
                               !.value = r.value]
            /\ UNCHANGED list_frame
            /\ UNCHANGED nonListVars

\* reverse called on the list a first reverse returned: args keeps the
\* list given to the first call, then the list given to this one
ReverseResult ==
    LET r == reverse_loop(heap, list_ret.value, NIL)
    IN  /\ list_ret.op = "reverse"
        /\ list_ret.kind = "ok"
        /\ Len(list_ret.args) = 1
        /\ heap' = r.heap
        /\ list_ret' = [list_ret EXCEPT !.kind = r.kind,
                           !.args = <<list_ret.args[1], list_ret.value>>,
                           !.value = r.value]
        /\ UNCHANGED list_frame
        /\ UNCHANGED nonListVars

ReverseNext ==
    \/ Reverse
    \/ ReverseResult

\* slice_into_list (fns.rs 29-36) on the heap: a cell is allocated for each
\* element of the slice, the last element first, each new cell put before
\* the ones made so far
RECURSIVE slice_into_cells(_, _, _, _)
slice_into_cells(h, slice, n, acc) ==
    IF n = 0 THEN [heap |-> h, value |-> acc]
    ELSE slice_into_cells(cons_new(h, slice[n], acc), slice, n - 1,
                          ConsObj(Len(h) + 1))

\* mutant: a result is put before the results gathered so far
outputs_push_front(outputs, output) == <<output>> \o outputs

\* outputs.push(output)
outputs_push(outputs, output) == Append(outputs, output)

\* what the function given to mapcar and mapc returns
FnVals == {IntObj(0), IntObj(1)}

\* the objects given to mapcar as its sequence: the lists, and an integer,
\* which is no sequence
SequenceArgs(h) == ListRefs(h) \cup {IntObj(0)}

\* the call of mapcar (fns.rs 129-162) or mapc (fns.rs 165-181) up to its
\* first call of the function; calls lists the elements the function has
\* been called with and answers what it returned, in the order of the calls
MapCall(fn) ==
    \E sequence \in SequenceArgs(heap) :
        /\ list_ret.op = "none" /\ list_frame.fn = "none"
        /\ IF sequence = NIL
              THEN /\ list_ret' = [NoListRet EXCEPT !.op = fn, !.args = <<sequence>>,
                                                    !.heap0 = heap]
                   /\ UNCHANGED list_frame
           ELSE IF sequence.tag = "cons"
              THEN /\ list_frame' = [fn |-> fn, seq |-> sequence, heap0 |-> heap,
                                     iter |-> heap[sequence.n].cdr,
                                     calls |-> <<heap[sequence.n].car>>,
                                     answers |-> <<>>, outputs |-> <<>>]
                   /\ UNCHANGED list_ret
           ELSE \* TypeError: not a sequence
                /\ list_ret' = [NoListRet EXCEPT !.op = fn, !.kind = "err",
                                                 !.args = <<sequence>>, !.heap0 = heap]
                /\ UNCHANGED list_frame
        /\ UNCHANGED heap
        /\ UNCHANGED nonListVars

Mapcar == MapCall("mapcar")

Mapc == MapCall("mapc")

\* what a function called by a builtin hands back when it raises
Err == [tag |-> "err", n |-> 0]

\* mutant: an error handed back is taken for a value
is_err_never(result) == FALSE

\* call!(..)? : the result is Err(e), which the builtin returns at once
is_err(result) == result.tag = "err"

\* the function called by mapcar or mapc hands back result: on an error the
\* builtin returns it; else the loop goes on to the next element, or the
\* builtin returns
map_fn_done(result) ==
    LET f == list_frame
        outputs == IF f.fn = "mapcar" THEN outputs_push(f.outputs, result)
                   ELSE f.outputs
        made == slice_into_cells(heap, outputs, Len(outputs), NIL)
    IN  /\ f.fn \in {"mapcar", "mapc"}
        /\ IF is_err(result)
              THEN /\ list_frame' = NoListFrame
                   /\ list_ret' = [NoListRet EXCEPT !.op = f.fn, !.kind = "err",
                                      !.args = <<f.seq>>, !.heap0 = f.heap0,
                                      !.calls = f.calls,
                                      !.answers = Append(f.answers, result)]
                   /\ UNCHANGED heap
           ELSE IF f.iter.tag = "cons"
              THEN /\ list_frame' = [f EXCEPT !.iter = heap[f.iter.n].cdr,
                                        !.calls = Append(@, heap[f.iter.n].car),
                                        !.answers = Append(@, result),
                                        !.outputs = outputs]
                   /\ UNCHANGED <<heap, list_ret>>
           ELSE /\ list_frame' = NoListFrame
                /\ heap' = IF f.fn = "mapcar" THEN made.heap ELSE heap
                /\ list_ret' = [NoListRet EXCEPT !.op = f.fn, !.args = <<f.seq>>,
                                   !.heap0 = f.heap0,
                                   !.value = IF f.fn = "mapcar" THEN made.value
                                             ELSE f.seq,
                                   !.calls = f.calls,
                                   !.answers = Append(f.answers, result)]
        /\ UNCHANGED nonListVars

\* the function returns Ok(output)
MapFnReturn == \E output \in FnVals : map_fn_done(output)

\* the function returns Err
MapFnRaise == map_fn_done(Err)

MapNext ==
    \/ Mapcar
    \/ Mapc
    \/ MapFnReturn
    \/ MapFnRaise

\* the keys of the pairs of an association list, and the keys looked up
AssocKeys == {IntObj(0), StrObj(1), StrObj(2)}

\* An association list of n elements in a heap of 2n cells: cell i is the
\* i-th cell of the list; its element is the pair held in cell n + i, with
\* the key kinds[i], or, where kinds[i] is nil, the integer 0, no pair.
alist_heap(n, kinds) ==
    [c \in 1..(2 * n) |->
        IF c <= n
           THEN [car |-> IF kinds[c] = NIL THEN IntObj(0) ELSE ConsObj(n + c),
                 cdr |-> IF c = n THEN NIL ELSE ConsObj(c + 1)]
        ELSE [car |-> kinds[c - n], cdr |-> IntObj(c - n)]]

\* the walk over the elements from cur on, up to the first one that is a
\* cons: that cons (0 when there is none) and where the walk stands after it
RECURSIVE next_pair(_, _)
next_pair(h, cur) ==
    IF cur.tag # "cons" THEN [pair |-> 0, iter |-> cur]
    ELSE IF h[cur.n].car.tag = "cons"
       THEN [pair |-> h[cur.n].car.n, iter |-> h[cur.n].cdr]
    ELSE next_pair(h, h[cur.n].cdr)

\* assoc without testfn: the first element that is a cons with a car equal
\* to key, or nil
RECURSIVE assoc_equal(_, _, _)
assoc_equal(h, key, cur) ==
    LET p == next_pair(h, cur)
    IN  IF p.pair = 0 THEN NIL
        ELSE IF equal(key, h[p.pair].car) THEN ConsObj(p.pair)
        ELSE assoc_equal(h, key, p.iter)

\* mutant: the scan stops at a nil answer
is_match_nil(result) == result = NIL

\* if result != NIL { return Ok(cons) }
is_match(result) == result # NIL

\* what testfn returns
TestVals == {NIL, IntObj(1)}

\* assoc (fns.rs 330-366): without testfn the whole call, with testfn the
\* call up to the first call of testfn; calls lists the pairs testfn has
\* been called on and answers what it returned
Assoc ==
    \E key \in AssocKeys, alist \in {NIL, ConsObj(1)} \cap ListRefs(heap),
       testfn \in BOOLEAN :
        LET p == next_pair(heap, alist)
            r == [NoListRet EXCEPT !.op = "assoc", !.args = <<alist>>, !.elt = key,
                                   !.heap0 = heap, !.testfn = testfn]
        IN  /\ list_ret.op = "none" /\ list_frame.fn = "none"
            /\ IF ~testfn
                  THEN /\ list_ret' = [r EXCEPT !.value = assoc_equal(heap, key, alist)]
                       /\ UNCHANGED list_frame
               ELSE IF p.pair = 0
                  THEN /\ list_ret' = r
                       /\ UNCHANGED list_frame
               ELSE /\ list_frame' = [fn |-> "assoc", seq |-> alist, key |-> key,
                                      heap0 |-> heap, iter |-> p.iter,
                                      calls |-> <<p.pair>>, answers |-> <<>>]
                    /\ UNCHANGED list_ret
            /\ UNCHANGED heap
            /\ UNCHANGED nonListVars

\* testfn hands back result: on an error assoc returns it; else assoc
\* returns the pair testfn was called on, or goes on to the next pair, or
\* returns nil at the end of the list
assoc_fn_done(result) ==
    LET f == list_frame
        p == next_pair(heap, f.iter)
        r == [NoListRet EXCEPT !.op = "assoc", !.args = <<f.seq>>, !.elt = f.key,
                               !.heap0 = f.heap0, !.testfn = TRUE,
                               !.calls = f.calls,
                               !.answers = Append(f.answers, result)]
    IN  /\ f.fn = "assoc"
        /\ IF is_err(result)
              THEN /\ list_ret' = [r EXCEPT !.kind = "err"]
                   /\ list_frame' = NoListFrame
           ELSE IF is_match(result)
              THEN /\ list_ret' = [r EXCEPT !.value = ConsObj(f.calls[Len(f.calls)])]
                   /\ list_frame' = NoListFrame
           ELSE IF p.pair = 0
              THEN /\ list_ret' = r
                   /\ list_frame' = NoListFrame
           ELSE /\ list_frame' = [f EXCEPT !.iter = p.iter,
                                     !.calls = Append(@, p.pair),
                                     !.answers = Append(@, result)]
                /\ UNCHANGED list_ret
        /\ UNCHANGED heap
        /\ UNCHANGED nonListVars

\* testfn returns Ok(result)
AssocFnReturn == \E result \in TestVals : assoc_fn_done(result)

\* testfn returns Err
AssocFnRaise == assoc_fn_done(Err)

\* an association list of up to MaxCells elements, pairs and integers
AssocList ==
    /\ \E n \in 0..MaxCells : \E kinds \in [1..n -> AssocKeys \cup {NIL}] :
          heap = alist_heap(n, kinds)
    /\ list_ret = NoListRet
    /\ list_frame = NoListFrame

AssocNext ==
    \/ Assoc
    \/ AssocFnReturn
    \/ AssocFnRaise

\* A list of n elements in a heap of 2n cells: cell i is the i-th cell of the
\* list; its element is the one-element list (0) held in cell n + i where
\* nested[i] holds, and else the integer 0.
nested_heap(n, nested) ==
    [c \in 1..(2 * n) |->
        IF c <= n
           THEN [car |-> IF nested[c] THEN ConsObj(n + c) ELSE IntObj(0),
                 cdr |-> IF c = n THEN NIL ELSE ConsObj(c + 1)]
        ELSE [car |-> IntObj(0), cdr |-> NIL]]

\* a list of up to MaxCells elements, integers and one-element lists
NestedList ==
    /\ \E n \in 0..MaxCells : \E nested \in [1..n -> BOOLEAN] :
          heap = nested_heap(n, nested)
    /\ list_ret = NoListRet
    /\ list_frame = NoListFrame

\* no cell allocated, no list builtin called
ListIdle ==
    /\ heap = <<>>
    /\ list_ret = NoListRet
    /\ list_frame = NoListFrame

\* proper lists built of up to MaxCells cells, cell c holding the integer c
LabelledLists ==
    /\ \E n \in 0..MaxCells : \E ends \in SUBSET (1..n) :
          /\ n > 0 => n \in ends
          /\ heap = chain_heap(n, ends, [c \in 1..n |-> IntObj(c)])
    /\ list_ret = NoListRet
    /\ list_frame = NoListFrame

NconcNext == Nconc

(***************************************************************************)
(* Specifications                                                          *)
(***************************************************************************)
Init == HashInit /\ tracing = FALSE /\ SortInit /\ SearchInit /\ RegexIdle /\ ListIdle

SpecHash == Init /\ [][HashNext]_vars

\* the same initial state, with the history of each maphash recorded
InitTracing == HashInit /\ tracing = TRUE /\ SortInit /\ SearchInit /\ RegexIdle /\ ListIdle

SpecMapRem == InitTracing /\ [][MapRemNext]_vars

SpecSort == Init /\ [][SortNext]_vars

SpecSearch == Init /\ [][SearchNext]_vars

SpecMatchData == Init /\ [][MatchDataNext]_vars

\* a search, then replacements in the subject it searched
InitReplace == HashInit /\ tracing = FALSE /\ SortInit /\ AfterStringMatch /\ RegexIdle /\ ListIdle

ReplaceNext == ReplaceInSubject

SpecReplace == InitReplace /\ [][ReplaceNext]_vars

\* Match Data set by the program, then replacements
InitReplaceData == HashInit /\ tracing = FALSE /\ SortInit /\ AfterSetMatchData /\ RegexIdle /\ ListIdle

ReplaceDataNext == ReplaceInAny

SpecReplaceData == InitReplaceData /\ [][ReplaceDataNext]_vars

\* Match Data set by the program, then translated
TranslateNext == MatchDataTranslate

SpecTranslate == InitReplaceData /\ [][TranslateNext]_vars

\* patterns given to the regex syntax translator
InitRegex == HashInit /\ tracing = FALSE /\ SortInit /\ SearchInit /\ RegexGiven /\ ListIdle

SpecRegex == InitRegex /\ [][RegexNext]_vars

\* lists allocated by the program, then one builtin called on them
InitLists == HashInit /\ tracing = FALSE /\ SortInit /\ SearchInit /\ RegexIdle /\ LabelledLists

SpecNconc == InitLists /\ [][NconcNext]_vars

\* a list allocated by the program, then one destructive builtin on it or on
\* a tail of it
InitListOps == HashInit /\ tracing = FALSE /\ SortInit /\ SearchInit /\ RegexIdle /\ ElementList

SpecListOps == InitListOps /\ [][ListOpsNext]_vars

\* a list allocated by the program, reversed and reversed again
SpecReverse == InitListOps /\ [][ReverseNext]_vars

\* lists allocated by the program, then one mapcar or mapc
SpecMap == InitLists /\ [][MapNext]_vars

\* an association list allocated by the program, then one assoc
InitAssoc == HashInit /\ tracing = FALSE /\ SortInit /\ SearchInit /\ RegexIdle /\ AssocList

SpecAssoc == InitAssoc /\ [][AssocNext]_vars

\* a table built by the program, then traversals whose function looks up and
\* removes entries and always returns
InitTable == tracing = TRUE /\ SortInit /\ SearchInit /\ RegexIdle /\ TableGiven /\ ListIdle

\* a table built by the program by putting up to MaxEntries keys 1, 2, .. in
\* order, every value the same, no maphash running
InitKeyTable ==
    /\ tracing = TRUE /\ SortInit /\ SearchInit /\ RegexIdle /\ ListIdle
    /\ TableGiven
    /\ len(table) <= MaxEntries
    /\ \A i \in 1..Len(table) : table[i] = [key |-> i, val |-> "v"]

\* a table built by the program, then traversals inside traversals
SpecNested == InitKeyTable /\ [][NestedNext]_vars

SpecLookupRem == InitTable /\ [][LookupRemNext]_vars /\ WF_vars(CbReturn)

\* a list or a table built by the program, then builtins that call a
\* function, which returns or raises
InitRaise ==
    /\ tracing = TRUE /\ SortInit /\ SearchInit /\ RegexIdle
    /\ \/ HashInit /\ NestedList
       \/ TableGiven /\ ListIdle

RaiseNext ==
    \/ Mapcar
    \/ Mapc
    \/ MapFnReturn
    \/ MapFnRaise
    \/ Assoc
    \/ AssocFnReturn
    \/ AssocFnRaise
    \/ TopMaphash
    \/ CbReturn
    \/ CbError

SpecRaise == InitRaise /\ [][RaiseNext]_vars

(***************************************************************************)
(* Properties of the hash table                                            *)
(***************************************************************************)

\* C1: while the function of a maphash only calls remhash, no entry is passed
\* to the function twice, the entry passed was present at the start and has not
\* been removed, and when maphash returns every entry of the start that was
\* never removed has been passed exactly once.
C1_EachSurvivorOnce ==
    /\ \A d \in 1..Len(stack) : \A k \in Keys : stack[d].visits[k] <= 1
    /\ ret.op = "call" =>
          /\ ret.key \in stack[Len(stack)].start
          /\ ret.key \notin stack[Len(stack)].removed
    /\ ret.op = "maphash" =>
          /\ \A k \in Keys : ret.frame.visits[k] <= 1
          /\ \A k \in ret.frame.start \ ret.frame.removed : ret.frame.visits[k] = 1
          /\ \A k \in Keys \ ret.frame.start : ret.frame.visits[k] = 0

\* C1 witness: a maphash over keys 1, 2, 3 has returned; key 1 was removed
\* after its turn, key 2 before its turn, and key 3 was still passed once.
C1_Witness ==
    /\ ret.op = "maphash"
    /\ ret.frame.start = {1, 2, 3}
    /\ ret.frame.removed = {1, 2}
    /\ ret.frame.visits[1] = 1
    /\ ret.frame.visits[2] = 0
    /\ ret.frame.visits[3] = 1

\* C2 as stated: remhash of a present key decrements the cursor when the
\* entry's index is at or before the cursor, and leaves it unchanged otherwise.
C2_AtOrBefore ==
    (ret.op = "remhash" /\ ret.idx # -1) =>
        iter_idx = IF ret.idx <= ret.iter0 THEN ret.iter0 - 1 ELSE ret.iter0

\* C2 amended: remhash of a present key decrements the cursor by one when the
\* entry's index is strictly before the cursor and leaves it unchanged
\* otherwise; the table is then the old one without that entry, in order.
C2_StrictlyBefore ==
    (ret.op = "remhash" /\ ret.idx # -1) =>
        /\ iter_idx = IF ret.idx < ret.iter0 THEN ret.iter0 - 1 ELSE ret.iter0
        /\ table = SelectSeq(ret.table0, LAMBDA e : e.key # ret.key)
        /\ Len(table) = Len(ret.table0) - 1

\* C2 witness: a remhash inside a traversal removed an entry before the
\* cursor, which moved back by one; an entry after it kept its place in order.
C2_Witness ==
    /\ ret.op = "remhash"
    /\ ret.idx # -1
    /\ ret.idx < ret.iter0
    /\ iter_idx = ret.iter0 - 1
    /\ Len(ret.table0) > ret.idx + 1

\* C3: when maphash returns, normally or with the function's error, the
\* cursor of the table is 0.
C3_CursorResetOnReturn ==
    ret.op = "maphash" => iter_idx = 0

\* C3 witness: maphash returned the function's error after the cursor had advanced.
C3_Witness ==
    /\ ret.op = "maphash"
    /\ ret.res = "err"
    /\ ret.iter0 >= 2
    /\ iter_idx = 0

(***************************************************************************)
(* Properties of sort                                                      *)
(***************************************************************************)
Count(s, x) == Cardinality({i \in 1..Len(s) : s[i] = x})

IsPermutation(s, t) == Len(s) = Len(t) /\ \A x \in Elems : Count(s, x) = Count(t, x)

\* the predicate answers nil on (x, y) and on (y, x)
Equivalent(p, x, y) == ~pred_holds(p, x, y) /\ ~pred_holds(p, y, x)

\* C4: when the predicate never raised, sort returns a permutation of its
\* argument in which no element must sort before an element preceding it.
C4_SortedPermutation ==
    (sort_pc = "done" /\ sort_res.kind = "ok") =>
        /\ IsPermutation(sort_res.list, seq)
        /\ \A i, j \in 1..Len(sort_res.list) :
              i < j => ~pred_holds(predicate, sort_res.list[j], sort_res.list[i])

\* C4 witness: sort by > returned a list in another order than its argument's.
C4_Witness ==
    /\ sort_pc = "done"
    /\ sort_res.kind = "ok"
    /\ predicate = "gt"
    /\ Len(seq) >= 3
    /\ sort_res.list # seq

\* C5: when the predicate raised, the pass has still inserted every element,
\* the predicate was not invoked after its first error, every later comparison
\* was answered Equal, and sort returns that first error.
C5_ErrorDeferred ==
    (sort_pc = "done" /\ sort_hist.first_err # 0) =>
        /\ sort_res = [kind |-> "err", list |-> <<>>, err |-> sort_hist.first_err]
        /\ sort_hist.pred_calls = sort_hist.first_err
        /\ sort_hist.late \subseteq {"Equal"}
        /\ ins.i = Len(vec)
        /\ IsPermutation(vec, seq)

\* C5 witness: the predicate raised on its second call, comparisons were made
\* after that, and sort returned the error.
C5_Witness ==
    /\ sort_pc = "done"
    /\ sort_hist.first_err = 2
    /\ sort_hist.closure_calls > sort_hist.pred_calls
    /\ sort_res.kind = "err"

\* C6: sort is stable: the elements equivalent under the predicate to any
\* given element come out in the order they had in the argument.
C6_Stable ==
    (sort_pc = "done" /\ sort_res.kind = "ok") =>
        \A c \in Elems :
            SelectSeq(sort_res.list, LAMBDA x : Equivalent(predicate, x, c))
              = SelectSeq(seq, LAMBDA x : Equivalent(predicate, x, c))

\* C6 witness: sorted by car, the equivalent elements 1 and 0 keep their
\* order 1, 0 while an element before them in the argument moved behind.
C6_Witness ==
    /\ sort_pc = "done"
    /\ sort_res.kind = "ok"
    /\ predicate = "car_lt"
    /\ sort_res.list # seq
    /\ \E i, j \in 1..Len(sort_res.list) :
          i < j /\ sort_res.list[i] = 1 /\ sort_res.list[j] = 0

(***************************************************************************)
(* Properties of the search primitives                                     *)
(***************************************************************************)

\* C7 as stated: after a successful string-match Match Data holds a pair for
\* every group of the pattern, group j at positions 2j and 2j+1: two integers
\* spanning the group's text, or two nils for a group that took no part.
C7_PairForEveryGroup ==
    (search_ret.op = "string_match" /\ search_ret.found) =>
        /\ Len(match_data) = 2 * Len(search_ret.caps)
        /\ \A j \in 1..Len(search_ret.caps) :
              LET g == search_ret.caps[j]
                  beg == match_data[2 * j - 1]
                  end == match_data[2 * j]
              IN  IF g.on
                     THEN /\ beg.tag = "int"
                          /\ end.tag = "int"
                          /\ end.n - beg.n = g.e - g.s
                     ELSE beg = NIL /\ end = NIL

\* C8 as stated: match-beginning(n) returns the entry at position 2n of Match
\* Data and match-end(n) the entry at position 2n+1, nil when there is none.
C8_ReadsPair ==
    /\ search_ret.op = "match_beginning" =>
          search_ret.value = IF 2 * search_ret.subexp < Len(match_data)
                                THEN match_data[2 * search_ret.subexp + 1] ELSE NIL
    /\ search_ret.op = "match_end" =>
          search_ret.value = IF 2 * search_ret.subexp + 1 < Len(match_data)
                                THEN match_data[2 * search_ret.subexp + 2] ELSE NIL

\* C9 as stated: after a successful string-match from start offset s, the
\* value returned and the offsets recorded are positions in the subject, the
\* engine's offsets in the searched tail plus s.
C9_SubjectOffsets ==
    (search_ret.op = "string_match" /\ search_ret.found) =>
        /\ search_ret.value = IntObj(search_ret.start + search_ret.caps[1].s)
        /\ search_ret.value.n >= search_ret.start
        /\ \A j \in 1..Len(search_ret.caps) :
              (2 * j <= Len(match_data) /\ search_ret.caps[j].on) =>
                  /\ match_data[2 * j - 1] = IntObj(search_ret.start + search_ret.caps[j].s)
                  /\ match_data[2 * j] = IntObj(search_ret.start + search_ret.caps[j].e)

\* C10: a string-match that finds nothing returns nil and leaves Match Data
\* as it was.
C10_NoMatchKeepsData ==
    (search_ret.op = "string_match" /\ search_ret.kind = "ok" /\ ~search_ret.found) =>
        /\ search_ret.value = NIL
        /\ match_data = search_ret.md0

\* C10 witness: a search found nothing while Match Data held the offsets of
\* a match with a capture group, and still holds them.
C10_Witness ==
    /\ search_ret.op = "string_match"
    /\ search_ret.kind = "ok"
    /\ ~search_ret.found
    /\ Len(search_ret.md0) >= 4
    /\ \A i \in 1..Len(search_ret.md0) : search_ret.md0[i].tag = "int"
    /\ match_data = search_ret.md0

\* the text of subexpression n of the search, as the subject holds it
matched_beg(r, n) == r.start + r.caps[n + 1].s
matched_end(r, n) == r.start + r.caps[n + 1].e

\* C11: after a successful string-match on a subject, replace-match on the
\* same subject with subexpression n (0 when omitted) returns the subject with
\* exactly the text that subexpression matched replaced by the new text, and
\* leaves Match Data as it was.
C11_ReplacesMatchedText ==
    LET r == search_ret
        n == unwrap_or(r.subexp_arg, 0)
    IN  (r.op = "replace_match" /\ r.found /\ n < Len(r.caps) /\ r.caps[n + 1].on)
        => /\ r.kind = "ok"
           /\ r.text = SubSeq(r.string[1], 1, matched_beg(r, n)) \o r.newtext
                         \o SubSeq(r.string[1], matched_end(r, n) + 1, Len(r.string[1]))
           /\ match_data = r.md0

\* C12: replace-match with subexpression n fails with an error and returns no
\* string whenever Match Data holds fewer than 2n+2 entries or an entry at
\* position 2n or 2n+1 is not an integer.
C12_NoOffsetsIsError ==
    LET r == search_ret
        n == unwrap_or(r.subexp_arg, 0)
    IN  (/\ r.op = "replace_match"
         /\ \/ Len(match_data) < 2 * n + 2
            \/ match_data[2 * n + 1].tag # "int"
            \/ match_data[2 * n + 2].tag # "int")
        => r.kind = "err" /\ r.text = <<>>

\* a subject is given and the pair of subexpression 0 is (nil nil)
C12_Witness ==
    /\ search_ret.op = "replace_match"
    /\ search_ret.string # None
    /\ search_ret.subexp_arg = Some(0)
    /\ Len(match_data) >= 2 /\ match_data[1] = NIL /\ match_data[2] = NIL
    /\ search_ret.kind = "err"

\* C13: match-data--translate(n) on Match Data whose entries are all integers
\* replaces every entry e by e+n, keeping the number and the order of the
\* entries; it fails with an error if some entry is not an integer.
C13_TranslateShiftsAll ==
    LET r == search_ret
        ints == \A i \in 1..Len(r.md0) : r.md0[i].tag = "int"
    IN  r.op = "match_data__translate"
        => IF ints
              THEN /\ r.kind = "ok"
                   /\ Len(match_data) = Len(r.md0)
                   /\ \A i \in 1..Len(r.md0) :
                         match_data[i] = IntObj(r.md0[i].n + r.shift)
           ELSE r.kind = "err"

\* two or more integer entries moved by a non-zero n
C13_Witness ==
    /\ search_ret.op = "match_data__translate"
    /\ search_ret.kind = "ok"
    /\ search_ret.shift # 0
    /\ Len(search_ret.md0) >= 2
    /\ search_ret.md0[1] # search_ret.md0[2]

\* the number of backslashes that stand in a row just before position i
RECURSIVE backslash_run(_, _)
backslash_run(s, i) ==
    IF i > 1 /\ s[i - 1] = "\\" THEN 1 + backslash_run(s, i - 1) ELSE 0

\* position i is not taken by a backslash before it
unescaped(s, i) == backslash_run(s, i) % 2 = 0

\* the pattern holds no [:word:]
NoClass(s) == \A i \in 1..Len(s) : ~starts_with(s, i, WordClass)

\* how many characters of the result stand for position i of a pattern
\* without [:word:]; a character taken by a backslash is counted with it
emitted_len(s, i) ==
    IF ~unescaped(s, i) THEN 0
    ELSE IF s[i] \in Parens THEN 2
    ELSE IF s[i] = "\\"
       THEN IF i = Len(s) THEN 1 ELSE IF s[i + 1] \in Parens THEN 1 ELSE 2
    ELSE 1

\* the number of characters of the result that stand for positions before i
RECURSIVE out_pos(_, _)
out_pos(s, i) == IF i = 1 THEN 0 ELSE out_pos(s, i - 1) + emitted_len(s, i - 1)

\* C14: the translator inverts the escaping of ( ) { }: an unescaped one is
\* emitted with a backslash before it, and one preceded by an unconsumed
\* backslash is emitted alone, the backslash dropped.
C14_ParensInverted ==
    (regex_pc = "done" /\ NoClass(regex_arg))
    => /\ Len(norm_regex) = out_pos(regex_arg, Len(regex_arg) + 1)
       /\ \A i \in 1..Len(regex_arg) :
             regex_arg[i] \in Parens
             => IF unescaped(regex_arg, i)
                   THEN /\ norm_regex[out_pos(regex_arg, i) + 1] = "\\"
                        /\ norm_regex[out_pos(regex_arg, i) + 2] = regex_arg[i]
                ELSE norm_regex[out_pos(regex_arg, i - 1) + 1] = regex_arg[i]

\* a pattern with an escaped and an unescaped parenthesis was translated
C14_Witness ==
    /\ regex_pc = "done"
    /\ \E i, j \in 1..Len(regex_arg) :
          /\ regex_arg[i] \in Parens /\ unescaped(regex_arg, i)
          /\ regex_arg[j] \in Parens /\ ~unescaped(regex_arg, j)

\* C15: a backslash followed by a character other than ( ) { } and the two
\* quote characters is emitted with that character as the same pair, the
\* character being consumed, so that a parenthesis after the pair counts as
\* unescaped; a backslash that ends the pattern is emitted as one backslash.
C15_OtherEscapesKept ==
    (regex_pc = "done" /\ NoClass(regex_arg))
    => \A i \in 1..Len(regex_arg) :
         (regex_arg[i] = "\\" /\ unescaped(regex_arg, i))
         => LET p == out_pos(regex_arg, i)
            IN  IF i = Len(regex_arg)
                   THEN Len(norm_regex) = p + 1 /\ norm_regex[p + 1] = "\\"
                ELSE regex_arg[i + 1] \notin Parens \cup {Grave, "'"}
                     => /\ Len(norm_regex) >= p + 2
                        /\ norm_regex[p + 1] = "\\"
                        /\ norm_regex[p + 2] = regex_arg[i + 1]
                        /\ (i + 2 <= Len(regex_arg) /\ regex_arg[i + 2] \in Parens)
                           => /\ Len(norm_regex) >= p + 4
                              /\ norm_regex[p + 3] = "\\"
                              /\ norm_regex[p + 4] = regex_arg[i + 2]

\* the pattern \\\\( was translated: an escaped backslash, then a parenthesis
C15_Witness ==
    /\ regex_pc = "done"
    /\ regex_arg = <<"\\", "\\", "(">>
    /\ norm_regex = <<"\\", "\\", "\\", "(">>

\* the elements of the lists from the i-th on, one list after the other, as
\* heap h holds them
RECURSIVE concat_from(_, _, _)
concat_from(h, lists, i) ==
    IF i > Len(lists) THEN <<>>
    ELSE elements(h, lists[i]) \o concat_from(h, lists, i + 1)

\* what nconc of proper lists is to return and leave behind: nil when all
\* are empty and else the first non-empty list itself, holding the elements
\* of all the lists in order; no cell is allocated, and every non-empty
\* list given now runs on through the lists given after it
spliced(r) ==
    /\ r.kind = "ok"
    /\ r.value = first_non_empty(r.args)
    /\ elements(heap, r.value) = concat_from(r.heap0, r.args, 1)
    /\ Len(conses(heap, r.value)) = Len(concat_from(r.heap0, r.args, 1))
    /\ Len(heap) = Len(r.heap0)
    /\ \A i \in 1..Len(r.args) :
          r.args[i] # NIL
             => elements(heap, r.args[i]) = concat_from(r.heap0, r.args, i)

\* no cell belongs to two of the lists given
pairwise_disjoint(h, lists) ==
    \A i, j \in 1..Len(lists) :
        i < j => \A k \in 1..Len(conses(h, lists[i])) :
                    \A l \in 1..Len(conses(h, lists[j])) :
                       conses(h, lists[i])[k] # conses(h, lists[j])[l]

\* C16: nconc of proper lists L1..Ln returns nil when all are empty and
\* otherwise the first non-empty list itself, whose chain then holds the
\* elements of L1..Ln in order, its length the sum of their lengths; no cell
\* is allocated, and every non-empty Li sees the spliced tail.
C16_NconcSplices == list_ret.op = "nconc" => spliced(list_ret)

\* C16 as amended: the same, for lists no two of which share a cell.
C16_NconcSplicesDisjoint ==
    (list_ret.op = "nconc" /\ pairwise_disjoint(list_ret.heap0, list_ret.args))
    => spliced(list_ret)

\* nil and two non-empty lists without a common cell were spliced
C16_Witness ==
    /\ list_ret.op = "nconc"
    /\ Len(list_ret.args) = 3
    /\ list_ret.args[1] = NIL
    /\ Len(conses(list_ret.heap0, list_ret.args[2])) >= 2
    /\ list_ret.args[3] # NIL
    /\ pairwise_disjoint(list_ret.heap0, list_ret.args)
    /\ list_ret.value = list_ret.args[2]

\* the sequence s back to front
Reversed(s) == [i \in 1..Len(s) |-> s[Len(s) + 1 - i]]

\* every cell holds the element it held before the call, and none was added
same_elements(h, h0) ==
    /\ Len(h) = Len(h0)
    /\ \A c \in 1..Len(h0) : h[c].car = h0[c].car

\* C17: nreverse of a proper list returns a chain of the same cells, holding
\* the same elements, in reversed order: the rest of each cell is the cell
\* that preceded it and the rest of the former head is nil, so that the
\* former head reference denotes a one-element chain; nil and a one-element
\* list are returned unchanged in value.
C17_NreverseRelinks ==
    LET r == list_ret
        cs == conses(r.heap0, r.args[1])
    IN  r.op = "nreverse"
        => /\ r.kind = "ok"
           /\ conses(heap, r.value) = Reversed(cs)
           /\ elements(heap, r.value) = Reversed(elements(r.heap0, r.args[1]))
           /\ same_elements(heap, r.heap0)
           /\ \A k \in 2..Len(cs) : heap[cs[k]].cdr = ConsObj(cs[k - 1])
           /\ cs # <<>> => /\ heap[cs[1]].cdr = NIL
                           /\ conses(heap, r.args[1]) = <<cs[1]>>
           /\ Len(cs) <= 1 => /\ r.value = r.args[1]
                              /\ elements(heap, r.value) = elements(r.heap0, r.args[1])

\* a list of three or more cells was reversed
C17_Witness ==
    /\ list_ret.op = "nreverse"
    /\ Len(conses(list_ret.heap0, list_ret.args[1])) >= 3
    /\ list_ret.value = ConsObj(Len(heap))

\* C18: delq and delete on a proper list return the chain of exactly the
\* original cells whose element does not match the given one (eq for delq,
\* equal for delete), in their original order; every matching cell, a run
\* of them at the head included, is unlinked, and the result is nil when
\* every element matches.
C18_DeleteKeepsOthers ==
    LET r == list_ret
        cs == conses(r.heap0, r.args[1])
        differs(c) == IF r.op = "delq" THEN ~eq(r.heap0[c].car, r.elt)
                      ELSE ~equal(r.heap0[c].car, r.elt)
    IN  r.op \in {"delq", "delete"}
        => /\ r.kind = "ok"
           /\ conses(heap, r.value) = SelectSeq(cs, differs)
           /\ same_elements(heap, r.heap0)
           /\ SelectSeq(cs, differs) = <<>> => r.value = NIL

\* delq unlinked two matching cells at the head and one after a cell kept
C18_Witness ==
    LET r == list_ret
        cs == conses(r.heap0, r.args[1])
    IN  /\ r.op = "delq"
        /\ Len(cs) = 4
        /\ r.heap0[cs[1]].car = r.elt /\ r.heap0[cs[2]].car = r.elt
        /\ r.heap0[cs[3]].car # r.elt /\ r.heap0[cs[4]].car = r.elt
        /\ r.elt.tag = "str"
        /\ conses(heap, r.value) = <<cs[3]>>

\* the cells heap h0 held are in heap h as they were
cells_kept(h, h0) ==
    /\ Len(h) >= Len(h0)
    /\ \A c \in 1..Len(h0) : h[c] = h0[c]

\* C19: mapcar over a proper list of length n with a function that does not
\* raise calls the function once per element in list order and returns a
\* newly allocated chain of length n whose i-th element is what the i-th
\* call returned, the cells of the list left as they were; mapc makes the
\* same calls and returns the list given.
C19_MapcarCallsInOrder ==
    /\ list_frame.fn \in {"mapcar", "mapc"}
       => /\ list_frame.calls
               = SubSeq(elements(heap, list_frame.seq), 1, Len(list_frame.calls))
          /\ Len(list_frame.answers) = Len(list_frame.calls) - 1
          /\ heap = list_frame.heap0
    /\ (list_ret.op \in {"mapcar", "mapc"} /\ list_ret.kind = "ok")
       => LET r == list_ret
              n == Len(conses(r.heap0, r.args[1]))
          IN  /\ r.calls = elements(r.heap0, r.args[1])
              /\ Len(r.answers) = n
              /\ cells_kept(heap, r.heap0)
              /\ r.op = "mapcar"
                 => /\ Len(conses(heap, r.value)) = n
                    /\ elements(heap, r.value) = r.answers
                    /\ \A k \in 1..n : conses(heap, r.value)[k] > Len(r.heap0)
                    /\ Len(heap) = Len(r.heap0) + n
              /\ r.op = "mapc" => r.value = r.args[1] /\ heap = r.heap0

\* mapcar returned over a list of three or more elements, the function
\* having returned different values
C19_Witness ==
    /\ list_ret.op = "mapcar"
    /\ list_ret.kind = "ok"
    /\ Len(list_ret.calls) >= 3
    /\ list_ret.answers[1] # list_ret.answers[2]

\* the elements of the list that are pairs, as cells, in list order
pairs_of(h, alist) ==
    LET is_pair(e) == e.tag = "cons"
        es == SelectSeq(elements(h, alist), is_pair)
    IN  [i \in 1..Len(es) |-> es[i].n]

\* testfn has been called on the first pairs of the list, each once and in
\* list order, and on nothing else
calls_in_order(calls, h, alist) ==
    /\ Len(calls) <= Len(pairs_of(h, alist))
    /\ calls = SubSeq(pairs_of(h, alist), 1, Len(calls))

\* C20: assoc returns the first element of the list that is a pair and whose
\* first component matches the key (by testfn when given, else by
\* structural equality), the cell itself and no copy, or nil when none
\* matches; with a testfn the scan stops at the first answer that is not
\* nil, testfn is never called on an element after the matching one, and
\* elements that are no pairs are passed over without a call.
C20_AssocFirstMatch ==
    /\ list_frame.fn = "assoc"
       => /\ calls_in_order(list_frame.calls, heap, list_frame.seq)
          /\ Len(list_frame.answers) = Len(list_frame.calls) - 1
          /\ \A i \in 1..Len(list_frame.answers) : list_frame.answers[i] = NIL
          /\ heap = list_frame.heap0
    /\ (list_ret.op = "assoc" /\ list_ret.kind = "ok")
       => LET r == list_ret
              ps == pairs_of(r.heap0, r.args[1])
              n == Len(r.calls)
              matches(c) == equal(r.elt, r.heap0[c].car)
          IN  /\ heap = r.heap0
              /\ ~r.testfn
                 => r.value = IF SelectSeq(ps, matches) = <<>> THEN NIL
                              ELSE ConsObj(SelectSeq(ps, matches)[1])
              /\ r.testfn
                 => /\ calls_in_order(r.calls, r.heap0, r.args[1])
                    /\ Len(r.answers) = n
                    /\ \A i \in 1..(n - 1) : r.answers[i] = NIL
                    /\ IF n > 0 /\ r.answers[n] # NIL
                          THEN r.value = ConsObj(r.calls[n])
                       ELSE r.value = NIL /\ r.calls = ps

\* assoc with a testfn returned the second pair of a list that holds an
\* element that is no pair before it and a pair after it
C20_Witness ==
    LET r == list_ret
        ps == pairs_of(r.heap0, r.args[1])
    IN  /\ r.op = "assoc" /\ r.kind = "ok" /\ r.testfn
        /\ Len(r.calls) = 2
        /\ Len(ps) >= 3
        /\ r.value = ConsObj(ps[2])
        /\ r.heap0[1].car.tag = "int"

\* the function has raised in one of the calls answered
has_raised(answers) == \E i \in 1..Len(answers) : answers[i] = Err

\* C21: when the function given to mapcar, mapc, assoc (testfn) or maphash
\* raises on some element, the builtin returns that error at once: the
\* function is not called on any later element and no value is returned.
C21_RaiseEndsBuiltin ==
    /\ list_frame.fn # "none" => ~has_raised(list_frame.answers)
    /\ (list_ret.op \in {"mapcar", "mapc", "assoc"} /\ has_raised(list_ret.answers))
       => LET r == list_ret
              n == Len(r.answers)
          IN  /\ r.kind = "err" /\ r.value = NIL
              /\ r.answers[n] = Err
              /\ ~has_raised(SubSeq(r.answers, 1, n - 1))
              /\ Len(r.calls) = n
              /\ IF r.op = "assoc"
                    THEN calls_in_order(r.calls, r.heap0, r.args[1])
                 ELSE r.calls = SubSeq(elements(r.heap0, r.args[1]), 1, n)
              /\ heap = r.heap0
    /\ (ret.op = "maphash" /\ ret.res = "err")
       => LET n == TotalVisits(ret.frame)
          IN  /\ n >= 1 /\ n <= Len(table)
              /\ \A i \in 1..Len(table) :
                    ret.frame.visits[table[i].key] = IF i <= n THEN 1 ELSE 0
              /\ stack = <<>>

\* mapcar returned the error the function raised on the second of three or
\* more elements
C21_Witness ==
    /\ list_ret.op = "mapcar"
    /\ list_ret.kind = "err"
    /\ Len(list_ret.calls) = 2
    /\ list_ret.answers = <<IntObj(0), Err>>
    /\ Len(conses(heap, list_ret.args[1])) >= 3

\* the lists a and b hold elements that are pairwise equal
structurally_equal(h, a, b) ==
    LET ea == elements(h, a)
        eb == elements(h, b)
    IN  /\ Len(ea) = Len(eb)
        /\ \A i \in 1..Len(ea) : equal(ea[i], eb[i])

\* the cells of the list obj were all allocated after the heap h0
newly_allocated(h, h0, obj) ==
    \A i \in 1..Len(conses(h, obj)) : conses(h, obj)[i] > Len(h0)

\* C22: for every finite proper list L, reverse(L) returns a newly allocated
\* chain with L's elements in reversed order and leaves every cell of L
\* unchanged, so reverse(reverse(L)) is structurally equal to L.
C22_ReverseCopies ==
    LET r == list_ret
        L == r.args[1]
        e0 == elements(r.heap0, L)
    IN  r.op = "reverse"
        => /\ r.kind = "ok"
           /\ \A c \in 1..Len(r.heap0) : heap[c] = r.heap0[c]
           /\ newly_allocated(heap, r.heap0, r.value)
           /\ Len(r.args) = 1
              => /\ elements(heap, r.value) = Reversed(e0)
                 /\ Len(heap) = Len(r.heap0) + Len(e0)
           /\ Len(r.args) = 2
              => /\ elements(heap, r.args[2]) = Reversed(e0)
                 /\ newly_allocated(heap, r.heap0, r.args[2])
                 /\ \A i, j \in 1..Len(e0) :
                       conses(heap, r.value)[i] # conses(heap, r.args[2])[j]
                 /\ structurally_equal(heap, r.value, L)
                 /\ conses(heap, L) = conses(r.heap0, L)

\* a list of three or more elements, the first and the last different, was
\* reversed twice
C22_Witness ==
    /\ list_ret.op = "reverse"
    /\ Len(list_ret.args) = 2
    /\ Len(elements(heap, list_ret.value)) >= 3
    /\ elements(heap, list_ret.value)[1] = IntObj(0)
    /\ elements(heap, list_ret.value)[3] = StrObj(1)

\* C23: wherever code other than maphash's own loop step runs (before
\* maphash, inside a call of the function, after a remhash or puthash done by
\* the function, after maphash returns) the cursor is at least 0 and at most
\* the number of entries; remhash never moves back a cursor that is 0, and a
\* remhash while no maphash is in progress leaves the cursor at 0.
C23_CursorWithinTable ==
    /\ 0 <= iter_idx /\ iter_idx <= len(table)
    /\ (ret.op = "remhash" /\ ret.iter0 = 0) => iter_idx = 0
    /\ (ret.op = "remhash" /\ ~InCallback) => ret.iter0 = 0 /\ iter_idx = 0

\* inside a call of the function, after a maphash it ran has put the cursor
\* back to 0, remhash has removed the first entry
C23_Witness ==
    /\ InCallback
    /\ ret.op = "remhash"
    /\ ret.idx = 0
    /\ ret.iter0 = 0
    /\ len(table) >= 1

\* the traversal with history f has called the function at most once for
\* each entry the table had when it started
within_entries(f) == TotalVisits(f) <= Cardinality(f.start)

\* C24: a maphash over a table of N entries whose function never raises and
\* touches the table only through gethash and remhash (no new key, no nested
\* maphash over the table) ends after at most N calls of the function.
C24_EndsWithinEntries ==
    /\ [](/\ \A d \in 1..Len(stack) : within_entries(stack[d])
          /\ ret.op = "maphash" => ret.res = "ok" /\ within_entries(ret.frame))
    /\ InCallback ~> (~InCallback /\ ret.op = "maphash")

\* a maphash over three entries has returned after two calls of the function,
\* which looked up an entry and removed one not yet passed
C24_Witness ==
    /\ ret.op = "maphash"
    /\ Cardinality(ret.frame.start) = 3
    /\ Cardinality(ret.frame.removed) = 1
    /\ TotalVisits(ret.frame) = 2

\* the call or the return recorded in ret is the first turn the loop of a
\* traversal took after a maphash run by its function came back
resumed == ret.op \in {"call", "maphash"} /\ ret.nested

\* a maphash run by the function of the innermost traversal has come back and
\* that traversal has not resumed yet
inner_came_back == InCallback /\ stack[Len(stack)].nested

\* C25 as stated: when the function of an outer maphash over T runs an inner
\* maphash over T to completion or to an error, T's cursor is 0 when the outer
\* traversal resumes, which continues from index 0 and calls its function
\* again on an entry it has already visited.
C25_ResumesOnVisited ==
    /\ inner_came_back => iter_idx = 0
    /\ resumed => /\ ret.op = "call"
                  /\ ret.idx = 0
                  /\ stack[Len(stack)].visits[ret.key] >= 2

\* C25: the cursor is shared by all traversals of a table: when the function
\* of an outer maphash over T runs an inner maphash over T to completion or to
\* an error, T's cursor is 0 when the outer traversal resumes, which continues
\* from index 0: it returns if T is empty, and else calls its function on the
\* entry at index 0, an entry it has already visited if the outer maphash was
\* not itself run inside a traversal of T and no entry was removed since it
\* started.
C25_ResumesAtZero ==
    /\ inner_came_back => iter_idx = 0
    /\ resumed =>
          /\ ret.op = "maphash" => ret.res = "ok" /\ ret.iter0 = 0 /\ table = <<>>
          /\ ret.op = "call" =>
                /\ ret.idx = 0
                /\ (Len(stack) = 1 /\ stack[1].removed = {})
                   => stack[1].visits[ret.key] >= 2

\* an outer maphash over two entries or more has called its function on the
\* first entry a second time, after a maphash run by the function came back
C25_Witness ==
    /\ resumed
    /\ ret.op = "call"
    /\ Len(stack) = 1
    /\ len(table) >= 2
    /\ stack[1].removed = {}
    /\ stack[1].visits[ret.key] = 2

\* the position of the first entry of md that is no integer, Len(md) + 1 if
\* every entry is one
RECURSIVE first_non_int(_, _)
first_non_int(md, i) ==
    IF i > Len(md) \/ md[i].tag # "int" THEN i ELSE first_non_int(md, i + 1)

\* C26: match-data--translate(n) does not restore Match Data on failure: when
\* the first entry that is no integer is at position k, the call returns an
\* error with the entries before k already shifted by n and the entries at k
\* and later unchanged.
C26_FailureKeepsShifted ==
    LET r == search_ret
        k == first_non_int(r.md0, 1)
    IN  (r.op = "match_data__translate" /\ k <= Len(r.md0))
        => /\ r.kind = "err"
           /\ Len(match_data) = Len(r.md0)
           /\ \A i \in 1..Len(r.md0) :
                 match_data[i] = IF i < k THEN IntObj(r.md0[i].n + r.shift)
                                 ELSE r.md0[i]

\* an integer, then an entry that is no integer, then an integer: the call
\* with a non-zero n failed at the second entry
C26_Witness ==
    /\ search_ret.op = "match_data__translate"
    /\ search_ret.kind = "err"
    /\ search_ret.shift # 0
    /\ Len(search_ret.md0) = 3
    /\ first_non_int(search_ret.md0, 1) = 2
    /\ search_ret.md0[3].tag = "int"
    /\ match_data[1] # search_ret.md0[1]

=============================================================================
